---- MODULE Spec2Model ----
(***************************************************************************)
(* cob: run the Go benchmark harness on HEAD~1 and on HEAD, compare the    *)
(* two result sets by benchmark name and fail when a benchmark got worse   *)
(* than the threshold.  The model follows src/main.go.                     *)
(*                                                                         *)
(* Numbers.  float64 values are modelled as exact rationals <<num, den>>   *)
(* with den > 0 (rounding of float64 arithmetic is not modelled).  uint64  *)
(* values are modelled as naturals modulo 2^UintBits: the width is scaled  *)
(* down, the wrap-around of unsigned subtraction is kept.                  *)
(***************************************************************************)
EXTENDS Integers, Sequences, FiniteSets, TLC

\* ------------------------------------------------------------------ bounds
\* Longest record sequence the harness reports under one benchmark name.
MaxSamples == 2
\* Width of the modelled unsigned integers (uint64 in the program).
UintBits == 5

UintMod == 2 ^ UintBits

\* ------------------------------------------------------- harness output
Names == {"BenchA", "BenchB"}

\* (NsPerOp, AllocedBytesPerOp) of the first sample of a name.
Metrics ==
    { <<0, 0>>, <<100, 8>>, <<100, 16>>, <<120, 8>> }

\* A later sample of the same name (several lines with one name).
LaterMetrics == <<240, 24>>

Benchmark(name, m) ==
    [Name |-> name, NsPerOp |-> m[1], AllocedBytesPerOp |-> m[2]]

\* The record sequences parse.Set can hold under `name`: empty, or a first
\* sample followed by up to MaxSamples - 1 later samples.
SampleSeqs(name) ==
    {<<>>} \cup
    { [i \in 1..n |-> IF i = 1 THEN Benchmark(name, m)
                               ELSE Benchmark(name, LaterMetrics)] :
        m \in Metrics, n \in 1..MaxSamples }

\* parse.Set: map[string][]*Benchmark, keys unique.
IsSet(s) == \A n \in DOMAIN s : s[n] \in SampleSeqs(n)

BenchSets ==
    UNION { { s \in [S -> UNION {SampleSeqs(n) : n \in S}] : IsSet(s) } :
            S \in SUBSET Names }

NilSet == <<>>

\* ------------------------------------------------------------ rationals
Rat(n, d) == <<n, d>>
Zero == Rat(0, 1)
RatGt(a, b) == a[1] * b[2] > b[1] * a[2]
RatLe(a, b) == a[1] * b[2] <= b[1] * a[2]
RatLt(a, b) == a[1] * b[2] < b[1] * a[2]
RatEq(a, b) == a[1] * b[2] = b[1] * a[2]

\* uint64 arithmetic: the result of an unsigned operation, wrapped.
Uint(x) == x % UintMod

Thresholds == { Rat(1, 10), Rat(1, 4) }

Configs ==
    [ benchmem : BOOLEAN, onlyDegression : BOOLEAN, threshold : Thresholds,
      bench : {"."}, benchtime : {"1s"}, args : {<<"./...">>} ]

\* -------------------------------------------------------------- state
VARIABLES
    pc,           \* position in main / run
    c,            \* config passed to run
    tree,         \* revision the working tree is at
    gitCalls,     \* go-git calls so far: [call, commit, ok]
    invocations,  \* harness invocations so far: [args, tree, outcome]
    prevSet,      \* parse.Set of the run on HEAD~1
    headSet,      \* parse.Set of the run on HEAD
    ratios,       \* []result
    rows,         \* rows of the measurement table
    resultTable,  \* what showResult rendered
    ratioTable,   \* what showRatio rendered
    degression,   \* showRatio's return value
    err,          \* the error run returns ("" is nil)
    exitStatus,   \* exit status of the process, -1 while it runs
    otherResults, \* SpecGate: a second result list for showRatio
    again         \* SpecCmp, SpecGate: what the second application returned

vars == << otherResults, again, pc, c, tree, gitCalls, invocations, prevSet, headSet, ratios, rows,
           resultTable, ratioTable, degression, err, exitStatus >>

NoTable == [headers |-> <<>>, rows |-> <<>>, colors |-> <<>>]

ErrOpen == "unable to open the git repository"
ErrHead == "unable to get the reference where HEAD is pointing to"
ErrResolve == "unable to resolves revision to corresponding hash"
ErrWorktree == "unable to get a worktree based on the given fs"
ErrResetPrev == "failed to reset the worktree to a previous commit"
ErrBenchmark == "failed to run a benchmark"
ErrResetHead == "failed to reset the worktree to HEAD"
ErrWorse == "This commit makes benchmarks worse"

Init ==
    /\ pc = "open"
    /\ c \in Configs
    /\ tree = "HEAD"
    /\ gitCalls = <<>>
    /\ invocations = <<>>
    /\ prevSet = NilSet
    /\ headSet = NilSet
    /\ ratios = <<>>
    /\ rows = <<>>
    /\ resultTable = NoTable
    /\ ratioTable = NoTable
    /\ degression = FALSE
    /\ err = ""
    /\ exitStatus = -1
    /\ otherResults = <<>>
    /\ again = <<>>

\* `return xerrors.Errorf(...)` out of run.
Return(e) ==
    /\ err' = e
    /\ pc' = "returned"

\* ------------------------------------------------------ run: git steps
\* A call of the go-git library, which succeeds or fails.
GitCall(call, commit, ok) ==
    gitCalls' = Append(gitCalls, [call |-> call, commit |-> commit, ok |-> ok])

PlainOpen ==
    /\ pc = "open"
    /\ \E ok \in BOOLEAN :
         /\ GitCall("PlainOpen", "", ok)
         /\ IF ok THEN pc' = "head" /\ err' = err ELSE Return(ErrOpen)
    /\ UNCHANGED << otherResults, again, c, tree, invocations, prevSet, headSet, ratios,
                    rows, resultTable, ratioTable, degression, exitStatus >>

ResolveHead ==
    /\ pc = "head"
    /\ \E ok \in BOOLEAN :
         /\ GitCall("Head", "", ok)
         /\ IF ok THEN pc' = "resolve" /\ err' = err ELSE Return(ErrHead)
    /\ UNCHANGED << otherResults, again, c, tree, invocations, prevSet, headSet, ratios,
                    rows, resultTable, ratioTable, degression, exitStatus >>

ResolveRevision ==
    /\ pc = "resolve"
    /\ \E ok \in BOOLEAN :
         /\ GitCall("ResolveRevision", "", ok)
         /\ IF ok THEN pc' = "worktree" /\ err' = err ELSE Return(ErrResolve)
    /\ UNCHANGED << otherResults, again, c, tree, invocations, prevSet, headSet, ratios,
                    rows, resultTable, ratioTable, degression, exitStatus >>

Worktree ==
    /\ pc = "worktree"
    /\ \E ok \in BOOLEAN :
         /\ GitCall("Worktree", "", ok)
         /\ IF ok THEN pc' = "reset_prev" /\ err' = err ELSE Return(ErrWorktree)
    /\ UNCHANGED << otherResults, again, c, tree, invocations, prevSet, headSet, ratios,
                    rows, resultTable, ratioTable, degression, exitStatus >>

\* w.Reset(&git.ResetOptions{Commit: commit, Mode: git.HardReset}).  A
\* reset that fails may have touched nothing or part of the tree.
Reset(commit, ok) ==
    /\ GitCall("Reset", commit, ok)
    /\ IF ok THEN tree' = commit ELSE tree' \in {tree, "PARTIAL"}

ResetPrev ==
    /\ pc = "reset_prev"
    /\ \E ok \in BOOLEAN :
         /\ Reset("PREV", ok)
         /\ IF ok THEN pc' = "bench_prev" /\ err' = err
                  ELSE Return(ErrResetPrev)
    /\ UNCHANGED << otherResults, again, c, invocations, prevSet, headSet, ratios, rows,
                    resultTable, ratioTable, degression, exitStatus >>

\* ResetHead with the error of w.Reset dropped.
ResetHeadIgnoreErr ==
    /\ pc = "reset_head"
    /\ \E ok \in BOOLEAN : Reset("HEAD", ok)
    /\ pc' = "bench_head"
    /\ UNCHANGED << otherResults, again, c, invocations, prevSet, headSet, ratios, rows,
                    resultTable, ratioTable, degression, err, exitStatus >>

ResetHead ==
    /\ pc = "reset_head"
    /\ \E ok \in BOOLEAN :
         /\ Reset("HEAD", ok)
         /\ IF ok THEN pc' = "bench_head" /\ err' = err
                  ELSE Return(ErrResetHead)
    /\ UNCHANGED << otherResults, again, c, invocations, prevSet, headSet, ratios, rows,
                    resultTable, ratioTable, degression, exitStatus >>

\* ---------------------------------------------------- run: the harness
prepareBenchArgs(cfg) ==
    << "test", "-benchtime", cfg.benchtime, "-bench", cfg.bench >>
      \o (IF cfg.benchmem THEN << "-benchmem" >> ELSE <<>>)
      \o cfg.args

\* exec.Command("go", args...) is started.
StartHarness(args) ==
    invocations' =
        Append(invocations, [args |-> args, tree |-> tree, outcome |-> "running"])

\* .Output() has returned and the output went through parse.ParseSet.
FinishHarness(outcome) ==
    invocations' =
        [invocations EXCEPT ![Len(invocations)].outcome = outcome]

\* What runBenchmark returns once the harness has finished: an error of
\* the command, an error of the parser, or a parsed set.
RunBenchmarkResults ==
    { [set |-> NilSet, ok |-> FALSE, outcome |-> "failed to run 'go test' command"],
      [set |-> NilSet, ok |-> FALSE, outcome |-> "failed to parse a result of benchmarks"] }
    \cup { [set |-> s, ok |-> TRUE, outcome |-> "ok"] : s \in BenchSets }

BenchPrevStart ==
    /\ pc = "bench_prev"
    /\ StartHarness(prepareBenchArgs(c))
    /\ pc' = "bench_prev_wait"
    /\ UNCHANGED << otherResults, again, c, tree, gitCalls, prevSet, headSet, ratios, rows,
                    resultTable, ratioTable, degression, err, exitStatus >>

\* BenchPrevFinish with the error of runBenchmark dropped.
BenchPrevFinishIgnoreErr ==
    /\ pc = "bench_prev_wait"
    /\ \E r \in RunBenchmarkResults :
         /\ FinishHarness(r.outcome)
         /\ prevSet' = r.set
    /\ pc' = "reset_head"
    /\ UNCHANGED << otherResults, again, c, tree, gitCalls, headSet, ratios, rows,
                    resultTable, ratioTable, degression, err, exitStatus >>

BenchPrevFinish ==
    /\ pc = "bench_prev_wait"
    /\ \E r \in RunBenchmarkResults :
         /\ FinishHarness(r.outcome)
         /\ IF r.ok
              THEN /\ prevSet' = r.set
                   /\ pc' = "reset_head"
                   /\ err' = err
              ELSE /\ prevSet' = prevSet
                   /\ Return(ErrBenchmark)
    /\ UNCHANGED << otherResults, again, c, tree, gitCalls, headSet, ratios, rows, resultTable,
                    ratioTable, degression, exitStatus >>

BenchHeadStart ==
    /\ pc = "bench_head"
    /\ StartHarness(prepareBenchArgs(c))
    /\ pc' = "bench_head_wait"
    /\ UNCHANGED << otherResults, again, c, tree, gitCalls, prevSet, headSet, ratios, rows,
                    resultTable, ratioTable, degression, err, exitStatus >>

BenchHeadFinish ==
    /\ pc = "bench_head_wait"
    /\ \E r \in RunBenchmarkResults :
         /\ FinishHarness(r.outcome)
         /\ IF r.ok
              THEN /\ headSet' = r.set
                   /\ pc' = "compare"
                   /\ err' = err
              ELSE /\ headSet' = headSet
                   /\ Return(ErrBenchmark)
    /\ UNCHANGED << otherResults, again, c, tree, gitCalls, prevSet, ratios, rows, resultTable,
                    ratioTable, degression, exitStatus >>

\* ------------------------------------------------- run: the comparison
result(name, ratioNsPerOp, ratioAllocedBytesPerOp) ==
    [ Name |-> name,
      RatioNsPerOp |-> ratioNsPerOp,
      RatioAllocedBytesPerOp |-> ratioAllocedBytesPerOp ]

\* fmt.Sprintf("%.2f", x) of a rational: the sign and the hundredths,
\* rounded to nearest.
FormatF2(x) ==
    LET a == IF x[1] < 0 THEN -x[1] ELSE x[1]
    IN  << IF x[1] < 0 THEN "-" ELSE "", (2 * a * 100 + x[2]) \div (2 * x[2]) >>

generateRow(ref, b, benchmem) ==
    << b.Name, ref, << FormatF2(Rat(b.NsPerOp, 1)), "ns/op" >> >>
      \o (IF benchmem THEN << << b.AllocedBytesPerOp, "B/op" >> >> ELSE <<>>)

\* ratioNsPerOp: float64 arithmetic.
NsRatio(prevBench, headBench) ==
    IF prevBench.NsPerOp # 0
      THEN Rat(headBench.NsPerOp - prevBench.NsPerOp, prevBench.NsPerOp)
      ELSE Zero

\* ratioAllocedBytesPerOp: the difference is taken in uint64 and converted
\* to float64 afterwards.
AllocedBytesRatio(prevBench, headBench) ==
    IF prevBench.AllocedBytesPerOp # 0
      THEN Rat(Uint(headBench.AllocedBytesPerOp - prevBench.AllocedBytesPerOp),
               prevBench.AllocedBytesPerOp)
      ELSE Zero

\* LoopBody with the baseline looked up in headSet instead of prevSet.
LoopBodySelf(acc, benchName, prevS, headS, benchmem) ==
    IF Len(headS[benchName]) = 0 THEN acc
    ELSE LET headBench == headS[benchName][1]
         IN  [ rows |-> acc.rows \o
                         << generateRow("HEAD", headBench, benchmem),
                            generateRow("HEAD@{1}", headBench, benchmem) >>,
               ratios |-> Append(acc.ratios,
                                 result(benchName,
                                        NsRatio(headBench, headBench),
                                        AllocedBytesRatio(headBench, headBench))) ]

\* One iteration of `for benchName, headBenchmarks := range headSet`;
\* acc holds ratios and rows.
LoopBody(acc, benchName, prevS, headS, benchmem) ==
    IF benchName \notin DOMAIN prevS THEN acc
    ELSE IF Len(headS[benchName]) = 0 \/ Len(prevS[benchName]) = 0 THEN acc
    ELSE LET prevBench == prevS[benchName][1]
             headBench == headS[benchName][1]
         IN  [ rows |-> acc.rows \o
                         << generateRow("HEAD", headBench, benchmem),
                            generateRow("HEAD@{1}", prevBench, benchmem) >>,
               ratios |-> Append(acc.ratios,
                                 result(benchName,
                                        NsRatio(prevBench, headBench),
                                        AllocedBytesRatio(prevBench, headBench))) ]

RECURSIVE RangeHeadSetBreak(_, _, _, _, _)
\* The loop with `break` where the code has `continue` on a missing name.
RangeHeadSetBreak(order, acc, prevS, headS, benchmem) ==
    IF order = <<>> THEN acc
    ELSE IF Head(order) \notin DOMAIN prevS THEN acc
    ELSE RangeHeadSetBreak(Tail(order),
                           LoopBody(acc, Head(order), prevS, headS, benchmem),
                           prevS, headS, benchmem)

RECURSIVE RangeHeadSet(_, _, _, _, _)
\* The loop over headSet, its keys visited in `order`.
RangeHeadSet(order, acc, prevS, headS, benchmem) ==
    IF order = <<>> THEN acc
    ELSE RangeHeadSet(Tail(order),
                      LoopBody(acc, Head(order), prevS, headS, benchmem),
                      prevS, headS, benchmem)

\* The orders in which a Go map's keys can be ranged over: all of them.
IterationOrders(S) ==
    { o \in [1..Cardinality(S) -> S] : \A i, j \in DOMAIN o : o[i] = o[j] => i = j }

Compare ==
    /\ pc = "compare"
    /\ \E order \in IterationOrders(DOMAIN headSet) :
         LET acc == RangeHeadSet(order, [rows |-> <<>>, ratios |-> <<>>],
                                 prevSet, headSet, c.benchmem)
         IN  /\ ratios' = acc.ratios
             /\ rows' = acc.rows
    /\ pc' = "report"
    /\ UNCHANGED << otherResults, again, c, tree, gitCalls, invocations, prevSet, headSet,
                    resultTable, ratioTable, degression, err, exitStatus >>

\* ------------------------------------------------------ run: the report
showResult(rs, benchmem) ==
    [ headers |-> << "Name", "Commit", "NsPerOp" >>
                    \o (IF benchmem THEN << "AllocedBytesPerOp" >> ELSE <<>>),
      rows |-> rs,
      colors |-> <<>> ]

generateRatioItem(ratio) ==
    LET clamped == IF RatLt(Rat(-1, 10000), ratio) /\ RatLt(ratio, Rat(1, 10000))
                     THEN Zero ELSE ratio
    IN  IF RatLe(Zero, clamped)
          THEN << FormatF2(Rat(100 * clamped[1], clamped[2])), "%" >>
          ELSE << FormatF2(Rat(-100 * clamped[1], clamped[2])), "%" >>

generateColor(ratio) ==
    IF RatGt(ratio, Zero) THEN << "Bold", "FgHiRedColor" >>
                          ELSE << "Bold", "FgBlueColor" >>

RECURSIVE RangeResults(_, _, _, _)
\* `for _, result := range results` of showRatio: the rows handed to
\* table.Rich, their colors, and the flag.
RangeResults(results, benchmem, threshold, onlyDegression) ==
    IF results = <<>>
      THEN [rows |-> <<>>, colors |-> <<>>, degression |-> FALSE]
      ELSE
        LET n == Len(results)
            res == results[n]
            before == RangeResults(SubSeq(results, 1, n - 1), benchmem,
                                   threshold, onlyDegression)
        IN  IF onlyDegression
               /\ RatLe(res.RatioNsPerOp, threshold)
               /\ RatLe(res.RatioAllocedBytesPerOp, threshold)
              THEN before
              ELSE [ rows |-> Append(before.rows,
                         << res.Name, generateRatioItem(res.RatioNsPerOp) >>
                           \o (IF benchmem
                                 THEN << generateRatioItem(res.RatioAllocedBytesPerOp) >>
                                 ELSE <<>>)),
                     colors |-> Append(before.colors,
                         << <<>>, generateColor(res.RatioNsPerOp),
                            generateColor(res.RatioAllocedBytesPerOp) >>),
                     degression |-> TRUE ]

showRatio(results, benchmem, threshold, onlyDegression) ==
    LET l == RangeResults(results, benchmem, threshold, onlyDegression)
    IN  [ table |-> [ headers |-> << "Name", "NsPerOp" >>
                          \o (IF benchmem THEN << "AllocedBytesPerOp" >> ELSE <<>>),
                      rows |-> l.rows,
                      colors |-> l.colors ],
          degression |-> l.degression ]

\* ReturnOf with the flag dropped: run returns nil.
ReturnNil(d) ==
    ""

\* What run returns for showRatio's flag.
ReturnOf(d) ==
    IF d THEN ErrWorse ELSE ""

Report ==
    /\ pc = "report"
    /\ resultTable' = showResult(rows, c.benchmem)
    /\ LET r == showRatio(ratios, c.benchmem, c.threshold, c.onlyDegression)
       IN  /\ ratioTable' = r.table
           /\ degression' = r.degression
           /\ Return(ReturnOf(r.degression))
    /\ UNCHANGED << otherResults, again, c, tree, gitCalls, invocations, prevSet, headSet, ratios,
                    rows, exitStatus >>

\* ------------------------------------------------------------- main
\* err := app.Run(os.Args); log.Fatal(err) exits with status 1.
Exit ==
    /\ pc = "returned"
    /\ exitStatus' = IF err # "" THEN 1 ELSE 0
    /\ pc' = "exited"
    /\ UNCHANGED << otherResults, again, c, tree, gitCalls, invocations, prevSet, headSet, ratios,
                    rows, resultTable, ratioTable, degression, err >>

Next ==
    \/ PlainOpen
    \/ ResolveHead
    \/ ResolveRevision
    \/ Worktree
    \/ ResetPrev
    \/ BenchPrevStart
    \/ BenchPrevFinish
    \/ ResetHead
    \/ BenchHeadStart
    \/ BenchHeadFinish
    \/ Compare
    \/ Report
    \/ Exit

Spec == Init /\ [][Next]_vars

\* ------------------------------------- the comparison loop, run twice
\* The loop of run on one pair of sets, then the same loop once more on
\* the same pair.
InitCmp ==
    /\ pc = "compare"
    /\ c \in { cfg \in Configs : cfg.threshold = Rat(1, 10) /\ ~cfg.onlyDegression }
    /\ tree = "HEAD"
    /\ gitCalls = <<>>
    /\ invocations = <<>>
    /\ prevSet \in BenchSets
    /\ headSet \in BenchSets
    /\ ratios = <<>>
    /\ rows = <<>>
    /\ resultTable = NoTable
    /\ ratioTable = NoTable
    /\ degression = FALSE
    /\ err = ""
    /\ exitStatus = -1
    /\ otherResults = <<>>
    /\ again = <<>>

CompareAgain ==
    /\ pc = "report"
    /\ \E order \in IterationOrders(DOMAIN headSet) :
         again' = RangeHeadSet(order, [rows |-> <<>>, ratios |-> <<>>],
                               prevSet, headSet, c.benchmem)
    /\ pc' = "compared_twice"
    /\ UNCHANGED << otherResults, c, tree, gitCalls, invocations, prevSet, headSet,
                    ratios, rows, resultTable, ratioTable, degression, err,
                    exitStatus >>

NextCmp ==
    \/ Compare
    \/ CompareAgain

SpecCmp == InitCmp /\ [][NextCmp]_vars

\* ------------------------------------------- showRatio on two result lists
\* The results the comparison can produce for one name.
Results(name) ==
    { result(name,
             NsRatio(Benchmark(name, p), Benchmark(name, h)),
             AllocedBytesRatio(Benchmark(name, p), Benchmark(name, h))) :
        p \in Metrics, h \in Metrics }

ResultLists ==
    UNION { { l \in [DOMAIN o -> UNION {Results(n) : n \in Names}] :
                \A i \in DOMAIN o : l[i] \in Results(o[i]) } :
            o \in UNION { IterationOrders(S) : S \in SUBSET Names } }

\* Two lists that agree on names and time ratios.
SameButBytes(l, m) ==
    /\ Len(l) = Len(m)
    /\ \A i \in DOMAIN l :
         /\ l[i].Name = m[i].Name
         /\ l[i].RatioNsPerOp = m[i].RatioNsPerOp

InitGate ==
    /\ pc = "report"
    /\ c \in Configs
    /\ tree = "HEAD"
    /\ gitCalls = <<>>
    /\ invocations = <<>>
    /\ prevSet = NilSet
    /\ headSet = NilSet
    /\ ratios \in ResultLists
    /\ rows = <<>>
    /\ resultTable = NoTable
    /\ ratioTable = NoTable
    /\ degression = FALSE
    /\ err = ""
    /\ exitStatus = -1
    /\ otherResults \in { m \in ResultLists : SameButBytes(ratios, m) }
    /\ again = <<>>

ReportOther ==
    /\ pc = "returned"
    /\ again' = showRatio(otherResults, c.benchmem, c.threshold, c.onlyDegression)
    /\ pc' = "reported_twice"
    /\ UNCHANGED << otherResults, c, tree, gitCalls, invocations, prevSet, headSet,
                    ratios, rows, resultTable, ratioTable, degression, err,
                    exitStatus >>

NextGate ==
    \/ Report
    \/ ReportOther

SpecGate == InitGate /\ [][NextGate]_vars

\* ============================================================ properties
Resets == SelectSeq(gitCalls, LAMBDA g : g.call = "Reset")

\* A step of run has failed: a go-git call or a harness invocation.
StepFailed ==
    \/ \E i \in DOMAIN gitCalls : ~gitCalls[i].ok
    \/ \E i \in DOMAIN invocations : invocations[i].outcome \notin {"running", "ok"}

ResultRendered == resultTable # NoTable
RatioRendered == ratioTable # NoTable

\* The rule of the gate: a result is a degression when a considered ratio
\* exceeds the threshold; the bytes ratio is considered in memory-stats mode.
IsDegression(res, benchmem, threshold) ==
    \/ RatGt(res.RatioNsPerOp, threshold)
    \/ benchmem /\ RatGt(res.RatioAllocedBytesPerOp, threshold)

HasRow(table, name) == \E j \in DOMAIN table.rows : table.rows[j][1] = name

\* The names the comparison has to report: keys of both sets with a
\* non-empty record sequence in both.
Comparable ==
    { n \in DOMAIN prevSet \cap DOMAIN headSet :
        Len(prevSet[n]) > 0 /\ Len(headSet[n]) > 0 }

\* The ratio of a metric as the specification defines it, in the integers.
TrueRatio(b, h) == IF b # 0 THEN Rat(h - b, b) ELSE Zero

\* C1: the flag showRatio returns is true exactly when some result is a
\* degression (time ratio above the threshold, or, in memory-stats mode,
\* bytes ratio above the threshold), whatever onlyDegression is.
C1_SignalIffDegression ==
    RatioRendered =>
        (degression <=>
           \E i \in DOMAIN ratios : IsDegression(ratios[i], c.benchmem, c.threshold))

\* C1, the case the claim names: every row rendered, none a degression,
\* and the flag is set.
C1_Witness ==
    /\ RatioRendered
    /\ ~c.onlyDegression
    /\ ratios # <<>>
    /\ \A i \in DOMAIN ratios : ~IsDegression(ratios[i], c.benchmem, c.threshold)
    /\ degression

\* C2: when every step of run succeeded, the process exits non-zero if
\* showRatio returned true and with status zero if it returned false.
C2_ExitStatusFollowsGate ==
    (pc = "exited" /\ ~StepFailed) =>
        /\ RatioRendered
        /\ degression => exitStatus # 0
        /\ ~degression => exitStatus = 0

C2_Witness ==
    /\ pc = "exited"
    /\ ~StepFailed
    /\ degression
    /\ exitStatus = 1

\* C3: the harness is invoked at most twice and never concurrently; the
\* baseline invocation starts after the reset to HEAD~1 succeeded and runs
\* with the tree at HEAD~1; the candidate invocation starts after the
\* baseline invocation finished and the reset to HEAD succeeded, and runs
\* with the tree at HEAD; a successful run invokes it exactly twice, with
\* the same arguments.
C3_HarnessSequential ==
    /\ Len(invocations) <= 2
    /\ Cardinality({ i \in DOMAIN invocations : invocations[i].outcome = "running" }) <= 1
    /\ Len(invocations) >= 1 =>
         /\ Len(Resets) >= 1
         /\ Resets[1] = [call |-> "Reset", commit |-> "PREV", ok |-> TRUE]
         /\ invocations[1].tree = "PREV"
         /\ invocations[1].outcome = "running" => tree = "PREV" /\ Len(Resets) = 1
    /\ Len(invocations) = 2 =>
         /\ invocations[1].outcome = "ok"
         /\ Len(Resets) = 2
         /\ Resets[2] = [call |-> "Reset", commit |-> "HEAD", ok |-> TRUE]
         /\ invocations[2].tree = "HEAD"
         /\ invocations[2].outcome = "running" => tree = "HEAD"
         /\ invocations[2].args = invocations[1].args
    /\ (pc = "exited" /\ ~StepFailed) =>
         /\ Len(invocations) = 2
         /\ invocations[2].outcome = "ok"

C3_Witness ==
    /\ pc = "exited"
    /\ ~StepFailed
    /\ Len(invocations) = 2
    /\ invocations[1].tree = "PREV"
    /\ invocations[2].tree = "HEAD"

\* C4: once the tree has been reset to HEAD~1, run does not return before
\* a reset to HEAD has been attempted, and if the last reset succeeded
\* the tree is at HEAD when run returns.
C4_RestoreAttempted ==
    (pc \in {"returned", "exited"} /\ Len(Resets) >= 1 /\ Resets[1].ok) =>
        /\ \E i \in DOMAIN Resets : i > 1 /\ Resets[i].commit = "HEAD"
        /\ Resets[Len(Resets)].ok => tree = "HEAD"

\* C4, the case the claim names: the baseline run failed and run has
\* returned with the tree at HEAD~1 and no reset to HEAD attempted.
C4_Witness ==
    /\ pc = "exited"
    /\ Len(Resets) = 1
    /\ Resets[1].ok
    /\ tree = "PREV"
    /\ Len(invocations) = 1
    /\ invocations[1].outcome \notin {"running", "ok"}

\* C5, state part: once a step has failed, run has returned an error, no
\* table is rendered and the process exits non-zero; if HEAD~1 could not
\* be resolved the tree was never reset.
C5_AfterFailure ==
    StepFailed =>
        /\ pc \in {"returned", "exited"}
        /\ err \notin {"", ErrWorse}
        /\ ~ResultRendered
        /\ ~RatioRendered
        /\ pc = "exited" => exitStatus # 0
        /\ (\E i \in DOMAIN gitCalls :
              gitCalls[i].call = "ResolveRevision" /\ ~gitCalls[i].ok)
             => Resets = <<>> /\ tree = "HEAD"

\* C5, step part: after the first failure there is no further go-git call
\* (so no reset), no further harness invocation (so no retry) and no
\* rendering.
C5_NothingAfterFailure ==
    StepFailed =>
        /\ gitCalls' = gitCalls
        /\ invocations' = invocations
        /\ tree' = tree
        /\ resultTable' = resultTable
        /\ ratioTable' = ratioTable
        /\ err' = err

\* C5: fail-fast.  As soon as a step of run fails, run returns an error
\* and the process exits non-zero; nothing is retried, no harness
\* invocation or reset follows, no table is rendered; a failure to
\* resolve HEAD~1 leaves the tree untouched.
C5_FailFast == []C5_AfterFailure /\ [][C5_NothingAfterFailure]_vars

C5_Witness ==
    /\ pc = "exited"
    /\ exitStatus = 1
    /\ Len(invocations) = 2
    /\ invocations[2].outcome = "failed to parse a result of benchmarks"

\* C6: the result list holds exactly one entry for each name that is a
\* key of both sets with a non-empty record sequence in both, and no
\* entry for any other name.
C6_ExactlyComparableNames ==
    pc \in {"report", "compared_twice"} =>
        /\ { ratios[i].Name : i \in DOMAIN ratios } = Comparable
        /\ Len(ratios) = Cardinality(Comparable)

\* C6, the example: baseline {BenchA}, candidate {BenchA, BenchB}, one
\* result, for BenchA.
C6_Witness ==
    /\ pc = "report"
    /\ DOMAIN prevSet = {"BenchA"}
    /\ DOMAIN headSet = {"BenchA", "BenchB"}
    /\ Len(headSet["BenchB"]) > 0
    /\ Len(ratios) = 1
    /\ ratios[1].Name = "BenchA"

\* C7: for every compared name, with b and c the first records of the
\* baseline and candidate sequences, each ratio is (c.metric - b.metric) /
\* b.metric when b.metric is non-zero and 0 when it is zero.
C7_RatiosExact ==
    pc = "report" =>
        \A i \in DOMAIN ratios :
            LET b == prevSet[ratios[i].Name][1]
                h == headSet[ratios[i].Name][1]
            IN  /\ RatEq(ratios[i].RatioNsPerOp, TrueRatio(b.NsPerOp, h.NsPerOp))
                /\ RatEq(ratios[i].RatioAllocedBytesPerOp,
                         TrueRatio(b.AllocedBytesPerOp, h.AllocedBytesPerOp))

\* C7, the failing case: fewer bytes per operation on HEAD than on HEAD~1
\* and a positive bytes ratio.
C7_Witness ==
    /\ pc = "report"
    /\ \E i \in DOMAIN ratios :
         /\ headSet[ratios[i].Name][1].AllocedBytesPerOp
              < prevSet[ratios[i].Name][1].AllocedBytesPerOp
         /\ RatGt(ratios[i].RatioAllocedBytesPerOp, Zero)

\* C8: with onlyDegression set the ratio table has a row for a result
\* exactly when the result is a degression; without it the table has one
\* row for every result.
C8_RowsIffDegression ==
    RatioRendered =>
        IF c.onlyDegression
          THEN \A i \in DOMAIN ratios :
                   HasRow(ratioTable, ratios[i].Name)
                     <=> IsDegression(ratios[i], c.benchmem, c.threshold)
          ELSE /\ Len(ratioTable.rows) = Len(ratios)
               /\ \A i \in DOMAIN ratios : ratioTable.rows[i][1] = ratios[i].Name

\* C8, the failing case: memory stats not requested, onlyDegression set,
\* and a row for a result whose time ratio is within the threshold.
C8_Witness ==
    /\ RatioRendered
    /\ c.onlyDegression
    /\ ~c.benchmem
    /\ \E i \in DOMAIN ratios :
         /\ HasRow(ratioTable, ratios[i].Name)
         /\ RatLe(ratios[i].RatioNsPerOp, c.threshold)

\* C9: without memory stats, two result lists that agree on names and time
\* ratios and differ only in the bytes ratio give the same rows and the
\* same flag.
C9_BytesRatioUnused ==
    (pc = "reported_twice" /\ ~c.benchmem) =>
        /\ again.table.rows = ratioTable.rows
        /\ again.degression = degression

C9_Witness ==
    /\ pc = "reported_twice"
    /\ ~c.benchmem
    /\ c.onlyDegression
    /\ ratios # otherResults
    /\ again.degression # degression

\* C10 as stated: the comparison loop run twice on the same two sets gives
\* identical result sequences, same entries in the same order.
C10_SameSequence ==
    pc = "compared_twice" => again.ratios = ratios

\* C10 as amended: the comparison loop run twice on the same two sets gives
\* result sequences with the same entries, each once; the order may differ.
C10_SameEntries ==
    pc = "compared_twice" =>
        /\ Len(again.ratios) = Len(ratios)
        /\ { again.ratios[i] : i \in DOMAIN again.ratios }
             = { ratios[i] : i \in DOMAIN ratios }
        /\ \A i, j \in DOMAIN ratios : ratios[i].Name = ratios[j].Name => i = j

C10_Witness ==
    /\ pc = "compared_twice"
    /\ Len(ratios) = 2
    /\ again.ratios # ratios

====
